---- MODULE Spec2Model ----
(***************************************************************************)
(* Model of tools/efrotools/makefile.py: a Makefile text is parsed into    *)
(* sections of paragraphs, searched for assignments and targets, and       *)
(* written back out.                                                       *)
(*                                                                         *)
(* A text (Python str) is a sequence of one-character strings.  An         *)
(* Optional value is a sequence of length at most one: None is <<>> and a  *)
(* present value x is <<x>>.                                               *)
(***************************************************************************)
EXTENDS Integers, Sequences, FiniteSets, TLC

VARIABLES
    contents,   \* the text handed to the constructor (self._original)
    sections,   \* self.sections: sequence of [name, paragraphs]
    mutated,    \* a caller has assigned into the document since construction
    prev,       \* Optional: the unmodified document whose output `contents`
                \* is (its sections; whether that output was its own text)
    passes,     \* how many times a document was rebuilt from an output
    op,         \* the last call made on the document
    arg,        \* the name given to the last lookup (or assigned by the caller)
    ret,        \* the value the last call returned
    err         \* the last call ended in an exception (IndexError)

vars == <<contents, sections, mutated, prev, passes, op, arg, ret, err>>

(***************************************************************************)
(* Bounds of the exploration.                                              *)
(***************************************************************************)
MaxLen == 4
MaxChunks == 3
MaxPasses == 1

(***************************************************************************)
(* Python built-ins used by the module.                                    *)
(***************************************************************************)
None == <<>>
Some(x) == <<x>>

\* str.isspace() for the characters of the model's alphabets.
Whitespace == {" ", "\t", "\n", "\r"}

\* the line boundaries of str.splitlines() among those characters.
LineBreaks == {"\n", "\r"}

\* c * n : n copies of the character c; empty when n <= 0.
rep(c, n) == SubSeq([i \in 1..n |-> c], 1, n)

\* the least and the greatest element of a non-empty set of integers.
Min(S) == CHOOSE i \in S : \A j \in S : i <= j
Max(S) == CHOOSE i \in S : \A j \in S : j <= i

\* str.splitlines(): split at line boundaries ("\r\n" is one boundary); the
\* boundaries are dropped and a final boundary opens no extra empty line.
splitlines(s) ==
    LET n == Len(s)
        breaks == {i \in 1..n : s[i] \in LineBreaks}
        RECURSIVE scan(_)
        \* the lines of the text from position start on
        scan(start) ==
            IF start > n THEN <<>>
            ELSE LET ahead == {i \in breaks : i >= start}
                 IN IF ahead = {} THEN <<SubSeq(s, start, n)>>
                    ELSE LET i == Min(ahead)
                             crlf == s[i] = "\r" /\ i < n /\ s[i + 1] = "\n"
                         IN <<SubSeq(s, start, i - 1)>>
                            \o scan(IF crlf THEN i + 2 ELSE i + 1)
    IN scan(1)

\* str.strip(): drop leading and trailing whitespace.
strip(s) ==
    LET solid == {i \in 1..Len(s) : s[i] \notin Whitespace}
    IN IF solid = {} THEN <<>> ELSE SubSeq(s, Min(solid), Max(solid))

\* str.split() without arguments: the maximal runs of non-whitespace.
split(s) ==
    LET n == Len(s)
        solid == {i \in 1..n : s[i] \notin Whitespace}
        RECURSIVE scan(_)
        \* the tokens of the text from position start on
        scan(start) ==
            LET ahead == {i \in solid : i >= start}
            IN IF ahead = {} THEN <<>>
               ELSE LET lo == Min(ahead)
                        gaps == {i \in lo..n : i \notin solid}
                        hi == IF gaps = {} THEN n ELSE Min(gaps) - 1
                    IN <<SubSeq(s, lo, hi)>> \o scan(hi + 1)
    IN scan(1)

\* str.split(sep)[0]: the text before the first occurrence of the character
\* sep, the whole text when sep does not occur.
split_first(s, sep) ==
    LET at == {i \in 1..Len(s) : s[i] = sep}
    IN IF at = {} THEN s ELSE SubSeq(s, 1, Min(at) - 1)

\* '\n'.join(lines)
RECURSIVE join(_)
join(lines) ==
    IF lines = <<>> THEN <<>>
    ELSE IF Len(lines) = 1 THEN lines[1]
    ELSE lines[1] \o <<"\n">> \o join(Tail(lines))

\* s.replace('\\\n', ''): delete every backslash that a newline follows,
\* together with that newline.
remove_continuations(s) ==
    LET n == Len(s)
        marks == {i \in 1..(n - 1) : s[i] = "\\" /\ s[i + 1] = "\n"}
        RECURSIVE scan(_)
        \* the text from position start on with its occurrences removed
        scan(start) ==
            LET ahead == {i \in marks : i >= start}
            IN IF ahead = {} THEN SubSeq(s, start, n)
               ELSE SubSeq(s, start, Min(ahead) - 1) \o scan(Min(ahead) + 2)
    IN scan(1)

(***************************************************************************)
(* Paragraph                                                               *)
(***************************************************************************)
\* get_logical_lines with every backslash removed instead of every
\* backslash-newline pair.
get_logical_lines_backslash(paragraph) ==
    splitlines(SelectSeq(paragraph, LAMBDA c : c # "\\"))

\* Paragraph.get_logical_lines (a paragraph is modelled by its contents).
get_logical_lines(paragraph) == splitlines(remove_continuations(paragraph))

(***************************************************************************)
(* Makefile                                                                *)
(***************************************************************************)
Width == 80
Inner == 78

header_line_full == rep("#", Width)
header_line_empty == <<"#">> \o rep(" ", Inner) \o <<"#">>

\* split_paragraphs without the flush of the buffer at the end of the input.
split_paragraphs_noflush(lines) ==
    LET RECURSIVE loop(_, _)
        loop(i, plines) ==
            IF i > Len(lines) THEN <<>>
            ELSE IF strip(lines[i]) = <<>>
            THEN IF plines # <<>>
                 THEN <<join(plines)>> \o loop(i + 1, <<>>)
                 ELSE loop(i + 1, <<>>)
            ELSE loop(i + 1, Append(plines, lines[i]))
    IN loop(1, <<>>)

\* split_paragraphs that takes only an empty line for a blank one.
split_paragraphs_empty(lines) ==
    LET RECURSIVE loop(_, _)
        loop(i, plines) ==
            IF i > Len(lines)
            THEN IF plines # <<>> THEN <<join(plines)>> ELSE <<>>
            ELSE IF lines[i] = <<>>
            THEN IF plines # <<>>
                 THEN <<join(plines)>> \o loop(i + 1, <<>>)
                 ELSE loop(i + 1, <<>>)
            ELSE loop(i + 1, Append(plines, lines[i]))
    IN loop(1, <<>>)

\* Makefile.__init__, first loop: break the lines into paragraphs.
split_paragraphs(lines) ==
    LET RECURSIVE loop(_, _)
        \* plines is the buffer of the paragraph being collected
        loop(i, plines) ==
            IF i > Len(lines)
            THEN IF plines # <<>> THEN <<join(plines)>> ELSE <<>>
            ELSE IF strip(lines[i]) = <<>>
            THEN IF plines # <<>>
                 THEN <<join(plines)>> \o loop(i + 1, <<>>)
                 ELSE loop(i + 1, <<>>)
            ELSE loop(i + 1, Append(plines, lines[i]))
    IN loop(1, <<>>)

\* is_header without the test of the title line's length.
is_header_anylen(plines) ==
    /\ Len(plines) = 5
    /\ plines[1] = header_line_full
    /\ plines[2] = header_line_empty
    /\ Len(plines[3]) >= 1
    /\ plines[3][1] = "#"
    /\ plines[3][Len(plines[3])] = "#"
    /\ plines[4] = header_line_empty
    /\ plines[5] = header_line_full

\* Makefile.__init__: the test for a section header.
is_header(plines) ==
    /\ Len(plines) = 5
    /\ plines[1] = header_line_full
    /\ plines[2] = header_line_empty
    /\ Len(plines[3]) = Width
    /\ plines[3][1] = "#"
    /\ plines[3][Len(plines[3])] = "#"
    /\ plines[4] = header_line_empty
    /\ plines[5] = header_line_full

\* header_name that keeps the padding around the name.
header_name_nostrip(plines) == SubSeq(plines[3], 2, Len(plines[3]) - 1)

\* Makefile.__init__: the name of the section a header paragraph opens.
header_name(plines) == strip(SubSeq(plines[3], 2, Len(plines[3]) - 1))

\* Makefile.__init__, second loop: break the paragraphs into sections.
split_sections(paragraphs) ==
    LET RECURSIVE loop(_, _)
        \* secs ends with the current section
        loop(i, secs) ==
            IF i > Len(paragraphs) THEN secs
            ELSE LET plines == splitlines(paragraphs[i])
                     last == Len(secs)
                 IN IF is_header(plines)
                    THEN loop(i + 1, Append(secs,
                             [name |-> Some(header_name(plines)),
                              paragraphs |-> <<>>]))
                    ELSE loop(i + 1, [secs EXCEPT ![last].paragraphs =
                                         Append(@, paragraphs[i])])
    IN loop(1, <<[name |-> None, paragraphs |-> <<>>]>>)

\* Makefile.__init__: the sections of Makefile(text).
Makefile(text) == split_sections(split_paragraphs(splitlines(text)))

\* for section in self.sections: for i, paragraph in enumerate(...): the
\* pairs (section, i) in the order the two loops visit them.  A section is
\* given by its position in self.sections (from 1); i is the paragraph's
\* index in section.paragraphs (from 0, as enumerate counts).
RECURSIVE visit(_, _, _)
visit(doc, s, i) ==
    IF s > Len(doc) THEN <<>>
    ELSE IF i >= Len(doc[s].paragraphs) THEN visit(doc, s + 1, 0)
    ELSE <<<<s, i>>>> \o visit(doc, s, i + 1)

\* the paragraph a pair stands for.
paragraph_at(doc, p) == doc[p[1]].paragraphs[p[2] + 1]

\* Makefile.find_assigns: the test applied to one logical line.
assign_line(line, name) == strip(split_first(line, "=")) = name

\* Makefile.find_assigns
find_assigns(doc, name) ==
    LET hit(p) ==
            LET lines == get_logical_lines(paragraph_at(doc, p))
            IN \E k \in 1..Len(lines) : assign_line(lines[k], name)
    IN SelectSeq(visit(doc, 1, 0), hit)

\* target_line that takes the text before the first ':' for the target.
target_line_loose(line, name) ==
    IF split(line) = <<>> THEN "raise"
    ELSE IF strip(split_first(line, ":")) = name THEN "hit" ELSE "miss"

\* Makefile.find_targets: the test applied to one logical line; "raise" is
\* the IndexError of line.split()[0] on a line without any token.
target_line(line, name) ==
    LET tokens == split(line)
    IN IF tokens = <<>> THEN "raise"
       ELSE IF tokens[1] = name \o <<":">> THEN "hit" ELSE "miss"

\* Makefile.find_targets: any(...) over the logical lines of one paragraph,
\* which stops at the first line that matches.
target_paragraph(paragraph, name) ==
    LET lines == get_logical_lines(paragraph)
        RECURSIVE scan(_)
        scan(k) ==
            IF k > Len(lines) THEN "miss"
            ELSE LET r == target_line(lines[k], name)
                 IN IF r = "miss" THEN scan(k + 1) ELSE r
    IN scan(1)

\* Makefile.find_targets: [raised, found]; the exception of one paragraph
\* ends the call and nothing is returned.
find_targets(doc, name) ==
    LET all == visit(doc, 1, 0)
        result(p) == target_paragraph(paragraph_at(doc, p), name)
        raises == \E k \in 1..Len(all) : result(all[k]) = "raise"
        hit(p) == result(p) = "hit"
    IN [raised |-> raises,
        found |-> IF raises THEN <<>> ELSE SelectSeq(all, hit)]

\* title_line that pads the right side with the whole leftover.
title_line_fullpad(name) ==
    LET spacelen == Inner - Len(name)
    IN <<"#">> \o rep(" ", spacelen \div 2) \o name
       \o rep(" ", spacelen) \o <<"#">>

\* Makefile.get_output: the title line of a named section's banner.
title_line(name) ==
    LET spacelen == Inner - Len(name)
    IN <<"#">> \o rep(" ", spacelen \div 2) \o name
       \o rep(" ", spacelen - (spacelen \div 2)) \o <<"#">>

\* Makefile.get_output: the banner of a named section.
banner(name) ==
    <<"\n", "\n">> \o header_line_full \o <<"\n">>
    \o header_line_empty \o <<"\n">>
    \o title_line(name) \o <<"\n">>
    \o header_line_empty \o <<"\n">>
    \o header_line_full \o <<"\n">>

\* paragraphs_output that never emits the blank line before a paragraph.
RECURSIVE paragraphs_output_nosep(_, _, _)
paragraphs_output_nosep(paragraphs, k, did_first_entry) ==
    IF k > Len(paragraphs) THEN <<>>
    ELSE paragraphs[k] \o <<"\n">>
         \o paragraphs_output_nosep(paragraphs, k + 1, TRUE)

\* Makefile.get_output: the paragraphs of one section.
RECURSIVE paragraphs_output(_, _, _)
paragraphs_output(paragraphs, k, did_first_entry) ==
    IF k > Len(paragraphs) THEN <<>>
    ELSE (IF did_first_entry THEN <<"\n">> ELSE <<>>)
         \o paragraphs[k] \o <<"\n">>
         \o paragraphs_output(paragraphs, k + 1, TRUE)

\* Makefile.get_output
RECURSIVE get_output_from(_, _)
get_output_from(doc, s) ==
    IF s > Len(doc) THEN <<>>
    ELSE (IF doc[s].name # None
          THEN banner(doc[s].name[1])
               \o paragraphs_output(doc[s].paragraphs, 1, TRUE)
          ELSE paragraphs_output(doc[s].paragraphs, 1, FALSE))
         \o get_output_from(doc, s + 1)

get_output(doc) == get_output_from(doc, 1)

(***************************************************************************)
(* The inputs explored: the texts a document is first built from, the      *)
(* names looked up and the names a caller assigns.                         *)
(***************************************************************************)
\* a 5-line block in the place of a section header, every line ended by a
\* newline, with the given third line.
block(title) ==
    header_line_full \o <<"\n">> \o header_line_empty \o <<"\n">>
    \o title \o <<"\n">>
    \o header_line_empty \o <<"\n">> \o header_line_full \o <<"\n">>

\* a title line with the name at the left edge instead of centered.
title_left == <<"#", "a">> \o rep(" ", Inner - 1) \o <<"#">>

\* a third line that is one character too long for a header.
title_long == <<"#">> \o rep("a", Inner + 1) \o <<"#">>

\* the characters short texts are made of.
LookupChunks == {<<"a">>, <<"=">>, <<":">>, <<" ">>, <<"\\">>, <<"\n">>}

\* the pieces texts with section headers are made of.
RoundChunks ==
    {<<"a">>, <<"\n">>, <<"\r">>,
     block(title_left), block(header_line_empty), block(title_long)}

RECURSIVE concat(_)
concat(chunks) ==
    IF Len(chunks) = 0 THEN <<>>
    ELSE chunks[1] \o concat(SubSeq(chunks, 2, Len(chunks)))

\* the concatenations of at most n of the given pieces.
texts(pieces, n) ==
    {concat(cs) : cs \in UNION {[1..k -> pieces] : k \in 0..n}}

Inputs == texts(LookupChunks, MaxLen) \cup texts(RoundChunks, MaxChunks)

Names == {<<>>, <<"a">>}

CallerNames == {<<"b">>, rep("b", Inner + 1)}

(***************************************************************************)
(* The state machine: a document is built from a text, and then looked     *)
(* into, modified by its caller, written out and built again from what     *)
(* was written.                                                            *)
(***************************************************************************)
Init ==
    /\ contents \in Inputs
    /\ sections = Makefile(contents)
    /\ mutated = FALSE
    /\ prev = None
    /\ passes = 0
    /\ op = "init"
    /\ arg = <<>>
    /\ ret = <<>>
    /\ err = FALSE

\* the document has just been built: no call has been made on it yet.  (A
\* call leaves the document as it found it, so every call is taken from
\* there; the lookups read no section name, so that only get_output is
\* taken again after the caller has assigned one.)
Fresh == op = "init"

FindAssigns(name) ==
    /\ Fresh
    /\ op' = "find_assigns"
    /\ arg' = name
    /\ ret' = find_assigns(sections, name)
    /\ err' = FALSE
    /\ UNCHANGED <<contents, sections, mutated, prev, passes>>

FindTargets(name) ==
    /\ Fresh
    /\ op' = "find_targets"
    /\ arg' = name
    /\ ret' = find_targets(sections, name).found
    /\ err' = find_targets(sections, name).raised
    /\ UNCHANGED <<contents, sections, mutated, prev, passes>>

GetOutput ==
    /\ Fresh \/ op = "set_name"
    /\ op' = "get_output"
    /\ arg' = <<>>
    /\ ret' = get_output(sections)
    /\ err' = FALSE
    /\ UNCHANGED <<contents, sections, mutated, prev, passes>>

\* the caller assigns section.name of a named section (the objects the
\* lookups and self.sections hand out are mutable).
SetName(s, name) ==
    /\ Fresh
    /\ ~mutated
    /\ passes = 0
    /\ sections[s].name # None
    /\ sections' = [sections EXCEPT ![s].name = Some(name)]
    /\ mutated' = TRUE
    /\ op' = "set_name"
    /\ arg' = name
    /\ ret' = <<>>
    /\ err' = FALSE
    /\ UNCHANGED <<contents, prev, passes>>

\* Makefile(output): a new document is built from the text get_output
\* has just returned.
Construct ==
    /\ op = "get_output"
    /\ passes < MaxPasses
    /\ contents' = ret
    /\ sections' = Makefile(ret)
    /\ prev' = IF mutated THEN None
                ELSE Some([sections |-> sections,
                           verbatim |-> ret = contents])
    /\ mutated' = FALSE
    /\ passes' = passes + 1
    /\ op' = "init"
    /\ arg' = <<>>
    /\ ret' = <<>>
    /\ err' = FALSE

Next ==
    \/ \E name \in Names : FindAssigns(name)
    \/ \E name \in Names : FindTargets(name)
    \/ GetOutput
    \/ \E s \in 1..Len(sections) : \E name \in CallerNames : SetName(s, name)
    \/ Construct

Spec == Init /\ [][Next]_vars

(***************************************************************************)
(* Vocabulary of the properties, stated on the text itself.                *)
(***************************************************************************)
\* a line is blank: nothing but whitespace.
Blank(line) == \A k \in 1..Len(line) : line[k] \in Whitespace

\* the lines of the text the document was built from.
InputLines == splitlines(contents)

\* the maximal runs of non-blank lines, as pairs <<first, last>>.
Runs(lines) ==
    {r \in (1..Len(lines)) \X (1..Len(lines)) :
        /\ r[1] <= r[2]
        /\ \A k \in r[1]..r[2] : ~Blank(lines[k])
        /\ r[1] = 1 \/ Blank(lines[r[1] - 1])
        /\ r[2] = Len(lines) \/ Blank(lines[r[2] + 1])}

\* a set of runs as a sequence, in the order of the text.
RECURSIVE InOrder(_)
InOrder(runs) ==
    IF runs = {} THEN <<>>
    ELSE LET first == CHOOSE r \in runs : \A q \in runs : r[1] <= q[1]
         IN <<first>> \o InOrder(runs \ {first})

\* the text of a run: its lines, a newline between two of them.
RunText(lines, r) ==
    LET n == r[2] - r[1] + 1
        at == [k \in 1..n |-> lines[r[1] + k - 1]]
        RECURSIVE glue(_)
        glue(k) == IF k = n THEN at[k] ELSE at[k] \o <<"\n">> \o glue(k + 1)
    IN glue(1)

\* a line made of n copies of one character.
AllOf(line, c, n) == Len(line) = n /\ \A k \in 1..n : line[k] = c

\* a line that is '#', n times the character c, '#'.
Framed(line, c, n) ==
    /\ Len(line) = n + 2
    /\ line[1] = "#" /\ line[n + 2] = "#"
    /\ \A k \in 2..(n + 1) : line[k] = c

\* a run has the 5-line shape of a section header.
BannerShape(lines, r) ==
    /\ r[2] = r[1] + 4
    /\ AllOf(lines[r[1]], "#", 80)
    /\ Framed(lines[r[1] + 1], " ", 78)
    /\ Len(lines[r[1] + 2]) = 80
    /\ lines[r[1] + 2][1] = "#" /\ lines[r[1] + 2][80] = "#"
    /\ Framed(lines[r[1] + 3], " ", 78)
    /\ AllOf(lines[r[1] + 4], "#", 80)

\* the trimmed interior of a title line.
Interior(title) ==
    LET solid == {k \in 2..(Len(title) - 1) : title[k] \notin Whitespace}
    IN IF solid = {} THEN <<>>
       ELSE [k \in 1..(Max(solid) - Min(solid) + 1) |->
                title[Min(solid) + k - 1]]

\* the runs of the input with the shape of a header, and the others.
BannerRuns == SelectSeq(InOrder(Runs(InputLines)),
                        LAMBDA r : BannerShape(InputLines, r))
PlainRuns == SelectSeq(InOrder(Runs(InputLines)),
                       LAMBDA r : ~BannerShape(InputLines, r))

\* all paragraphs of the document, section after section.
RECURSIVE Flatten(_, _)
Flatten(doc, s) ==
    IF s > Len(doc) THEN <<>> ELSE doc[s].paragraphs \o Flatten(doc, s + 1)

\* the pairs (section, i) of the document, and their order in the document.
AllPairs(doc) ==
    {p \in (1..Len(doc)) \X (0..Len(Flatten(doc, 1))) :
        p[2] < Len(doc[p[1]].paragraphs)}
Before(p, q) == p[1] < q[1] \/ (p[1] = q[1] /\ p[2] < q[2])

\* a sequence of pairs holds exactly the pairs of the document that satisfy
\* Hit, each once, in document order.
ExactlyInOrder(pairs, doc, Hit(_)) ==
    /\ \A k \in 1..Len(pairs) : pairs[k] \in AllPairs(doc)
    /\ \A p \in AllPairs(doc) :
          Hit(p) <=> \E k \in 1..Len(pairs) : pairs[k] = p
    /\ \A k \in 1..(Len(pairs) - 1) : Before(pairs[k], pairs[k + 1])

(***************************************************************************)
(* The properties.                                                         *)
(***************************************************************************)
\* the document is Makefile(contents), untouched since it was built.
Parsed == ~mutated

\* contents is T2 = Makefile(T).get_output() of an unmodified Makefile(T).
FromOutput == prev # None /\ Parsed

\* C1: serialization reaches a fixed point after one pass: when contents is
\* T2 = Makefile(T).get_output(), then Makefile(T2).get_output() returns T2
\* again, character for character.
C1_FixedPoint ==
    (FromOutput /\ op = "get_output") => ret = contents

\* C1 witness: the second output was taken, equals T2, T2 differs from T and
\* holds a section header and a paragraph.
C1_Witness ==
    /\ FromOutput /\ op = "get_output" /\ ret = contents
    /\ ~prev[1].verbatim
    /\ Len(sections) >= 2
    /\ Flatten(sections, 1) # <<>>

\* C2: the output is structurally equivalent to its document: D2 =
\* Makefile(D.get_output()) has as many sections as D = Makefile(T), and
\* section i of D2 has the name (absent or the same string) and the ordered
\* paragraph contents of section i of D.
C2_SameStructure ==
    FromOutput =>
        LET D == prev[1].sections
            D2 == sections
        IN /\ Len(D2) = Len(D)
           /\ \A i \in 1..Len(D) :
                 /\ D2[i].name = D[i].name
                 /\ Len(D2[i].paragraphs) = Len(D[i].paragraphs)
                 /\ \A k \in 1..Len(D[i].paragraphs) :
                       D2[i].paragraphs[k] = D[i].paragraphs[k]

\* C2 witness: a document rebuilt from an output that differs from the
\* input text, with a named section that holds a paragraph.
C2_Witness ==
    /\ FromOutput /\ op = "init"
    /\ ~prev[1].verbatim
    /\ \E i \in 1..Len(sections) :
          sections[i].name # None /\ sections[i].paragraphs # <<>>

\* C4: the parsed document has k+1 sections, k the number of maximal runs
\* of non-blank input lines with the shape of a header; section j+1 is
\* named by the trimmed interior of the title line of the j-th such run.
C4_SectionCount ==
    Parsed =>
        /\ Len(sections) = Len(BannerRuns) + 1
        /\ \A j \in 1..Len(BannerRuns) :
              /\ j + 1 <= Len(sections)
              /\ sections[j + 1].name
                    = Some(Interior(InputLines[BannerRuns[j][1] + 2]))

\* C4 witness: an input with a header and with a 5-line run that is not
\* one.
C4_Witness ==
    /\ Parsed /\ passes = 0 /\ op = "init"
    /\ Len(BannerRuns) >= 1
    /\ \E k \in 1..Len(PlainRuns) : PlainRuns[k][2] = PlainRuns[k][1] + 4

\* C5: parsing neither loses, duplicates nor reorders paragraphs: the
\* paragraphs of all sections, in section order, are the maximal runs of
\* non-blank input lines (joined by newlines), in input order, without the
\* runs that have the shape of a header.
C5_Partition ==
    Parsed =>
        /\ Len(Flatten(sections, 1)) = Len(PlainRuns)
        /\ \A k \in 1..Len(PlainRuns) :
              k <= Len(Flatten(sections, 1))
              => Flatten(sections, 1)[k] = RunText(InputLines, PlainRuns[k])

\* C5 witness: an input with a header run removed and a paragraph of two
\* lines kept.
C5_Witness ==
    /\ Parsed /\ passes = 0 /\ op = "init"
    /\ Len(BannerRuns) >= 1
    /\ \E k \in 1..Len(PlainRuns) : PlainRuns[k][2] > PlainRuns[k][1]

\* C9: every paragraph's contents is non-empty and holds no line that is
\* empty or whitespace-only: between the start, the newlines and the end of
\* the contents there is always a character that is not whitespace.
C9_NoBlankLine ==
    \A s \in 1..Len(sections) :
        \A k \in 1..Len(sections[s].paragraphs) :
            LET c == sections[s].paragraphs[k]
                cuts == {0, Len(c) + 1} \cup {i \in 1..Len(c) : c[i] = "\n"}
            IN /\ c # <<>>
               /\ \A i, j \in cuts :
                     i < j => \E m \in (i + 1)..(j - 1) :
                                  c[m] \notin Whitespace

\* C9 witness: the input has a whitespace-only line next to a paragraph.
C9_Witness ==
    /\ passes = 0 /\ op = "init"
    /\ Flatten(sections, 1) # <<>>
    /\ \E k \in 1..Len(InputLines) :
          InputLines[k] # <<>> /\ Blank(InputLines[k])

\* C10: in a parsed document the section list is non-empty, section i has
\* no name if and only if it is the first, and every later name has at most
\* 78 characters and no leading or trailing whitespace.
C10_FirstUnnamed ==
    Parsed =>
        /\ Len(sections) >= 1
        /\ \A i \in 1..Len(sections) :
              /\ sections[i].name = None <=> i = 1
              /\ i > 1 =>
                    LET name == sections[i].name[1]
                    IN /\ Len(name) <= 78
                       /\ name # <<>> =>
                             /\ name[1] \notin Whitespace
                             /\ name[Len(name)] \notin Whitespace

\* C10 witness: the input starts with a header, so that the unnamed first
\* section is empty and a named one follows.
C10_Witness ==
    /\ Parsed /\ passes = 0 /\ op = "init"
    /\ Len(sections) >= 2
    /\ sections[1].paragraphs = <<>>
    /\ sections[2].name # Some(<<>>)

\* the first whitespace-delimited token of a line, if it has one.
FirstToken(line) ==
    LET solid == {k \in 1..Len(line) : line[k] \notin Whitespace}
    IN IF solid = {} THEN None
       ELSE LET lo == Min(solid)
                hi == Max({k \in lo..Len(line) :
                              \A m \in lo..k : line[m] \notin Whitespace})
            IN Some([k \in 1..(hi - lo + 1) |-> line[lo + k - 1]])

\* the text of a line before its first '=', trimmed; None without any '='.
Assigned(line) ==
    LET at == {k \in 1..Len(line) : line[k] = "="}
    IN IF at = {} THEN None
       ELSE LET solid == {k \in 1..(Min(at) - 1) : line[k] \notin Whitespace}
            IN IF solid = {} THEN Some(<<>>)
               ELSE Some([k \in 1..(Max(solid) - Min(solid) + 1) |->
                             line[Min(solid) + k - 1]])

\* some logical line of the paragraph a pair stands for satisfies Test.
SomeLogicalLine(p, Test(_)) ==
    LET lines == get_logical_lines(paragraph_at(sections, p))
    IN \E k \in 1..Len(lines) : Test(lines[k])

\* the lines of a text.
OutputLines(text) == splitlines(text)

\* C3: for every named section of the current document (named by parsing
\* or by the caller) get_output emits a 5-line banner that passes the
\* parser's header test, whose title line has exactly 80 characters, begins
\* and ends with '#' and is '#', floor(p/2) spaces, the name, p - floor(p/2)
\* spaces, '#', with p = 78 - len(name).
C3_Banner ==
    op = "get_output" =>
        \A s \in 1..Len(sections) :
            sections[s].name # None =>
                LET name == sections[s].name[1]
                    p == 78 - Len(name)
                    lines == OutputLines(ret)
                IN \E k \in 1..(Len(lines) - 4) :
                      /\ is_header(SubSeq(lines, k, k + 4))
                      /\ Len(lines[k + 2]) = 80
                      /\ lines[k + 2][1] = "#" /\ lines[k + 2][80] = "#"
                      /\ lines[k + 2] = <<"#">> \o rep(" ", p \div 2) \o name
                                        \o rep(" ", p - (p \div 2)) \o <<"#">>

\* C6: find_assigns(name) returns, in document order and each once, exactly
\* the pairs of the paragraphs with a logical line that contains an '=' and
\* whose text before the first '=', trimmed, is name.
C6_Assigns ==
    op = "find_assigns" =>
        ExactlyInOrder(ret, sections,
            LAMBDA p : SomeLogicalLine(p, LAMBDA l : Assigned(l) = Some(arg)))

\* C7: find_targets(name) returns, in document order and each once, exactly
\* the pairs of the paragraphs with a logical line whose first
\* whitespace-delimited token is name followed by ':'.
C7_Targets ==
    (op = "find_targets" /\ ~err) =>
        ExactlyInOrder(ret, sections,
            LAMBDA p : SomeLogicalLine(p,
                LAMBDA l : FirstToken(l) = Some(arg \o <<":">>)))

\* C7 witness: find_targets("a") returned a hit for a paragraph "a:" next
\* to no hit, or no hit for a paragraph that starts "a :" or "aa:".
C7_Witness ==
    /\ op = "find_targets" /\ arg = <<"a">>
    /\ \/ ret = <<<<1, 0>>>>
       \/ /\ ret = <<>>
          /\ sections[1].paragraphs # <<>>
          /\ Len(sections[1].paragraphs[1]) >= 3
          /\ SubSeq(sections[1].paragraphs[1], 1, 3)
                \in {<<"a", " ", ":">>, <<"a", "a", ":">>}

\* C8: every operation is total: no call on a document built from a text
\* ends in an exception; find_targets never meets a logical line without a
\* first token.
C8_Total == ~err

\* C8 witness: find_targets returned on a document whose text has a
\* backslash-continued line.
C8_Witness ==
    /\ op = "find_targets" /\ ~err
    /\ \E k \in 1..(Len(contents) - 2) :
          contents[k] = "\\" /\ contents[k + 1] = "\n"
          /\ contents[k + 2] \notin Whitespace

====
